---- MODULE Spec2Model ----
(***************************************************************************)
(* A model of src/src/teaching/vehicle.py.                                 *)
(*                                                                         *)
(* The file holds two generations of the classes.  Lines 19-201 define     *)
(* Vehicle, Car, Bus (validating constructor, add / remove / board_group)  *)
(* and Convoy.  Lines 212-286 define Vehicle, Car, Bus again (no           *)
(* validation, add_passenger prints and returns when full) and Fleet.      *)
(* The second generation is what the module exports under the names        *)
(* Vehicle, Car and Bus; main.py and the tests use it.  An object records  *)
(* the generation of its class in the field ver (1 or 2).                  *)
(*                                                                         *)
(* Python lists are objects with identity: the variable lists is the heap  *)
(* of list objects and a container's passengers field is a reference into  *)
(* it.  Strings are sequences of one-character strings, so that strip()    *)
(* is computed and not assumed.                                            *)
(***************************************************************************)
EXTENDS Integers, Sequences, FiniteSets, TLC

VARIABLES
    objs,     \* heap of Vehicle / Car / Bus objects, an object's id is its index
    lists,    \* heap of list objects (contents), a list's id is its index
    caller,   \* ids of the list objects the calling code holds
    convoy,   \* the Convoy object: [name, vehicles]
    fleet,    \* the Fleet object: [vehicles]
    ret,      \* the last call: what was called, what it returned, raised, printed
    script,   \* the names a driver is going to pass to add, one call each
    pc        \* the number of names of script already passed

vars == <<objs, lists, caller, convoy, fleet, ret, script, pc>>

----------------------------------------------------------------------------
(* Bounds of the model and input sets                                      *)

MaxSeats == 3
MaxInit == 3
MaxGroup == 3
MaxMembers == 3
MaxCallerLen == 2

Whitespace == {" "}

\* "", " ", "a", "A", " a", "a "
NameInputs == { <<>>, <<" ">>, <<"a">>, <<"A">>, <<" ", "a">>, <<"a", " ">> }

SeatInputs == (-1) .. MaxSeats

RECURSIVE SeqsUpTo(_, _)
SeqsUpTo(S, n) ==
    IF n = 0 THEN { <<>> }
    ELSE LET shorter == SeqsUpTo(S, n - 1)
         IN shorter \cup { Append(s, x) : s \in { t \in shorter : Len(t) = n - 1 }, x \in S }

NoError == "none"
NoValue == "None"

----------------------------------------------------------------------------
(* Built-ins the classes call                                              *)

RECURSIVE lstrip(_)
lstrip(s) == IF s # <<>> /\ Head(s) \in Whitespace THEN lstrip(Tail(s)) ELSE s

RECURSIVE rstrip(_)
rstrip(s) ==
    IF s # <<>> /\ s[Len(s)] \in Whitespace THEN rstrip(SubSeq(s, 1, Len(s) - 1)) ELSE s

\* str.strip(): the string without its leading and trailing whitespace
strip(s) == rstrip(lstrip(s))

\* x in list
Contains(p, x) == \E i \in 1 .. Len(p) : p[i] = x

\* list.remove deleting the last element equal to x instead of the first
list_remove_last(p, x) ==
    LET i == CHOOSE k \in 1 .. Len(p) : p[k] = x /\ \A j \in (k + 1) .. Len(p) : p[j] # x
    IN SubSeq(p, 1, i - 1) \o SubSeq(p, i + 1, Len(p))

\* list.remove(x) on a list that holds x: scans from the front, deletes the
\* first element equal to x
RECURSIVE list_remove(_, _)
list_remove(p, x) ==
    IF Head(p) = x THEN Tail(p) ELSE <<Head(p)>> \o list_remove(Tail(p), x)

\* The elements an Iterable argument yields: None is handled by the caller,
\* a tuple is a value, a list is read from the heap when it is iterated.
Items(h, arg) ==
    IF arg.kind = "tuple" THEN arg.items ELSE h[arg.ref]

\* One print call: the literal text and the value formatted after it
Line(literal, value) == [literal |-> literal, value |-> value]

None == [kind |-> "None"]
TupleOf(s) == [kind |-> "tuple", items |-> s]
ListRef(l) == [kind |-> "list", ref |-> l]

----------------------------------------------------------------------------
(* First generation: Vehicle, Car, Bus (lines 19-154)                      *)

\* line 43 with the argument used as it is: the container shares the
\* caller's list object
NewList_alias(h, passengers) ==
    IF passengers.kind = "list" THEN [heap |-> h, ref |-> passengers.ref]
    ELSE [heap |-> Append(h, IF passengers.kind = "None" THEN <<>> ELSE Items(h, passengers)),
          ref |-> Len(h) + 1]

\* line 43: list(passengers) if passengers is not None else []
\* always a new list object, holding the elements the argument yields
NewList(h, passengers) ==
    [heap |-> Append(h, IF passengers.kind = "None" THEN <<>> ELSE Items(h, passengers)),
     ref |-> Len(h) + 1]

\* Vehicle.__init__ (lines 27-43), run for an object of class cls.
\* isinstance(seats, int) holds of every capacity drawn here.
Vehicle_init(cls, h, seats, passengers) ==
    IF seats <= 0
    THEN [raised |-> "ValueError", heap |-> h]
    ELSE LET l == NewList(h, passengers)
         IN [raised |-> NoError, heap |-> l.heap,
             self |-> [ver |-> 1, cls |-> cls, seats |-> seats, passengers |-> l.ref]]

\* Car.__init__ (lines 113-119)
Car_init(h, seats, brand, model, passengers) ==
    LET base == Vehicle_init("Car", h, seats, passengers)
    IN IF base.raised # NoError THEN base
       ELSE [base EXCEPT !.self = @ @@ [brand |-> strip(brand), model |-> strip(model)]]

\* Bus.__init__ (lines 140-142)
Bus_init(h, seats, route_number, passengers) ==
    LET base == Vehicle_init("Bus", h, seats, passengers)
    IN IF base.raised # NoError THEN base
       ELSE [base EXCEPT !.self = @ @@ [route_number |-> strip(route_number)]]

\* is_full with > for >=: one occupant too many is let in
is_full_strict(seats, passengers) == Len(passengers) > seats

\* Vehicle.is_full (lines 49-51)
is_full(seats, passengers) == Len(passengers) >= seats

\* Vehicle.available_seats (lines 53-55)
available_seats(seats, passengers) == seats - Len(passengers)

\* Vehicle.add (lines 57-70) on a container of capacity seats whose list
\* holds passengers: the list afterwards and the exception raised
add(seats, passengers, name) ==
    LET n == strip(name)
    IN IF n = <<>> THEN [passengers |-> passengers, raised |-> "ValueError"]
       ELSE IF is_full(seats, passengers)
            THEN [passengers |-> passengers, raised |-> "RuntimeError"]
            ELSE [passengers |-> Append(passengers, n), raised |-> NoError]

\* Vehicle.remove (lines 72-81): the list afterwards and the value returned
remove(passengers, name) ==
    IF Contains(passengers, name)
    THEN [passengers |-> list_remove(passengers, name), value |-> TRUE]
    ELSE [passengers |-> passengers, value |-> FALSE]

\* the loop of board_group
RECURSIVE board_all(_, _, _)
board_all(seats, passengers, names) ==
    IF names = <<>> THEN [passengers |-> passengers, raised |-> NoError]
    ELSE LET r == add(seats, passengers, Head(names))
         IN IF r.raised # NoError THEN r
            ELSE board_all(seats, r.passengers, Tail(names))

\* board_group as a transaction: a failure restores the list
board_group_rollback(seats, passengers, names) ==
    LET r == board_all(seats, passengers, names)
    IN IF r.raised # NoError THEN [r EXCEPT !.passengers = passengers] ELSE r

\* Bus.board_group (lines 144-151): add() for each name in order, the first
\* exception ends the loop and leaves what was added before it
RECURSIVE board_group(_, _, _)
board_group(seats, passengers, names) ==
    IF names = <<>> THEN [passengers |-> passengers, raised |-> NoError]
    ELSE LET r == add(seats, passengers, Head(names))
         IN IF r.raised # NoError THEN r
            ELSE board_group(seats, r.passengers, Tail(names))

\* Vehicle.describe, Car.describe, Bus.describe (lines 92-97, 126-127,
\* 153-154): the f-string as its leading literal, the fields formatted into
\* it and the two counts
Vehicle_describe(o, h) ==
    [label |-> "Vehicle", open |-> "(seats=", fields |-> <<>>,
     seats |-> o.seats, passengers |-> Len(h[o.passengers])]

Car_describe(o, h) ==
    [label |-> "Car", open |-> "(", fields |-> <<o.brand, o.model>>,
     seats |-> o.seats, passengers |-> Len(h[o.passengers])]

Bus_describe(o, h) ==
    [label |-> "Bus", open |-> "(route=", fields |-> <<o.route_number>>,
     seats |-> o.seats, passengers |-> Len(h[o.passengers])]

----------------------------------------------------------------------------
(* Second generation: Vehicle, Car, Bus (lines 212-264)                    *)

\* Vehicle.__init__ (lines 216-220): no validation, a new empty list
Vehicle2_init(cls, h, seats) ==
    [raised |-> NoError, heap |-> Append(h, <<>>),
     self |-> [ver |-> 2, cls |-> cls, seats |-> seats, passengers |-> Len(h) + 1]]

\* Car.__init__ (lines 242-245)
Car2_init(h, seats, brand) ==
    LET base == Vehicle2_init("Car", h, seats)
    IN [base EXCEPT !.self = @ @@ [brand |-> brand]]

\* Bus.__init__ (lines 258-260)
Bus2_init(h, seats, route) ==
    LET base == Vehicle2_init("Bus", h, seats)
    IN [base EXCEPT !.self = @ @@ [route |-> route]]

\* Vehicle.add_passenger (lines 222-228): the list afterwards and what is
\* printed
add_passenger(seats, passengers, name) ==
    IF Len(passengers) >= seats
    THEN [passengers |-> passengers, out |-> << Line("Vehicle is full!", NoValue) >>]
    ELSE [passengers |-> Append(passengers, name), out |-> <<>>]

\* describe of the second generation (lines 230-232, 248-249, 263-264)
Vehicle2_describe(o, h) ==
    [label |-> "Vehicle", open |-> ": seats=", fields |-> <<>>,
     seats |-> o.seats, passengers |-> Len(h[o.passengers])]

Car2_describe(o, h) ==
    [label |-> "Car", open |-> "(", fields |-> <<o.brand>>,
     seats |-> o.seats, passengers |-> Len(h[o.passengers])]

Bus2_describe(o, h) ==
    [label |-> "Bus", open |-> "(route ", fields |-> <<o.route>>,
     seats |-> o.seats, passengers |-> Len(h[o.passengers])]

\* describe resolved on the base class, whatever the object's class
describe_static(o, h) ==
    IF o.ver = 1 THEN Vehicle_describe(o, h) ELSE Vehicle2_describe(o, h)

\* v.describe(): the method of the object's own class
describe(o, h) ==
    CASE o.ver = 1 /\ o.cls = "Vehicle" -> Vehicle_describe(o, h)
      [] o.ver = 1 /\ o.cls = "Car" -> Car_describe(o, h)
      [] o.ver = 1 /\ o.cls = "Bus" -> Bus_describe(o, h)
      [] o.ver = 2 /\ o.cls = "Vehicle" -> Vehicle2_describe(o, h)
      [] o.ver = 2 /\ o.cls = "Car" -> Car2_describe(o, h)
      [] o.ver = 2 /\ o.cls = "Bus" -> Bus2_describe(o, h)

----------------------------------------------------------------------------
(* Aggregates: Convoy (lines 160-201) and Fleet (lines 270-286)            *)

NoObject == [absent |-> TRUE]

\* Convoy.__init__ (lines 170-172)
Convoy_init(name) == [name |-> strip(name), vehicles |-> <<>>]

\* Fleet.__init__ (lines 274-275)
Fleet_init == [vehicles |-> <<>>]

\* add_vehicle of both (lines 174-179, 277-279): the reference is appended
add_vehicle(vehicles, v) == Append(vehicles, v)

\* total_seats counting a vehicle once however often it was added
RECURSIVE total_seats_distinct(_, _)
total_seats_distinct(vehicles, os) ==
    IF vehicles = <<>> THEN 0
    ELSE (IF Contains(Tail(vehicles), Head(vehicles)) THEN 0 ELSE os[Head(vehicles)].seats)
         + total_seats_distinct(Tail(vehicles), os)

\* Convoy.total_seats (lines 181-183)
RECURSIVE total_seats(_, _)
total_seats(vehicles, os) ==
    IF vehicles = <<>> THEN 0
    ELSE os[Head(vehicles)].seats + total_seats(Tail(vehicles), os)

\* Convoy.total_passengers (lines 185-187)
RECURSIVE total_passengers(_, _, _)
total_passengers(vehicles, os, h) ==
    IF vehicles = <<>> THEN 0
    ELSE Len(h[os[Head(vehicles)].passengers]) + total_passengers(Tail(vehicles), os, h)

\* Convoy.print_summary (lines 189-201): five header prints, then one print
\* per vehicle
print_summary(c, os, h) ==
    << Line("\nConvoy: ", c.name),
       Line("Vehicles: ", Len(c.vehicles)),
       Line("Total seats: ", total_seats(c.vehicles, os)),
       Line("Total passengers: ", total_passengers(c.vehicles, os, h)),
       Line("\nVehicle details:", NoValue) >>
    \o [i \in 1 .. Len(c.vehicles) |-> Line(" -", describe(os[c.vehicles[i]], h))]

\* Fleet.show_all (lines 281-286): one print per vehicle
show_all(f, os, h) ==
    [i \in 1 .. Len(f.vehicles) |-> Line("", describe(os[f.vehicles[i]], h))]

----------------------------------------------------------------------------
(* The operations as steps of the program                                  *)

Call(op, self, arg, before, raised, value, out) ==
    [op |-> op, self |-> self, arg |-> arg, before |-> before,
     raised |-> raised, value |-> value, out |-> out]

NoCall == Call("", 0, NoValue, <<>>, NoError, NoValue, <<>>)

\* The heaps after a constructor call whose __init__ gave r, and the call:
\* the object exists iff nothing was raised
Constructed(st, op, r, arg) ==
    [objs |-> IF r.raised = NoError THEN Append(st.objs, r.self) ELSE st.objs,
     lists |-> r.heap,
     ret |-> Call(op, IF r.raised = NoError THEN Len(st.objs) + 1 ELSE 0, arg, <<>>,
                  r.raised, NoValue, <<>>)]

NoHeap == [objs |-> <<>>, lists |-> <<>>]

\* Vehicle(seats, passengers), Car(...), Bus(...) of the first generation
Vehicle_new(st, seats, passengers) ==
    Constructed(st, "Vehicle", Vehicle_init("Vehicle", st.lists, seats, passengers),
                [ver |-> 1, seats |-> seats, passengers |-> passengers])

Car_new(st, seats, brand, model, passengers) ==
    Constructed(st, "Car", Car_init(st.lists, seats, brand, model, passengers),
                [ver |-> 1, seats |-> seats, passengers |-> passengers])

Bus_new(st, seats, route_number, passengers) ==
    Constructed(st, "Bus", Bus_init(st.lists, seats, route_number, passengers),
                [ver |-> 1, seats |-> seats, passengers |-> passengers])

\* Vehicle(seats), Car(seats, brand), Bus(seats, route) of the second generation
Vehicle2_new(st, seats) ==
    Constructed(st, "Vehicle", Vehicle2_init("Vehicle", st.lists, seats),
                [ver |-> 2, seats |-> seats, passengers |-> None])

Car2_new(st, seats, brand) ==
    Constructed(st, "Car", Car2_init(st.lists, seats, brand),
                [ver |-> 2, seats |-> seats, passengers |-> None])

Bus2_new(st, seats, route) ==
    Constructed(st, "Bus", Bus2_init(st.lists, seats, route),
                [ver |-> 2, seats |-> seats, passengers |-> None])

\* A constructor call as a step
Construct(n) ==
    /\ objs' = n.objs
    /\ lists' = n.lists
    /\ ret' = n.ret
    /\ UNCHANGED <<caller, convoy, fleet>>

Here == [objs |-> objs, lists |-> lists]

NewVehicle(seats, passengers) == Construct(Vehicle_new(Here, seats, passengers))

NewVehicle2(seats) == Construct(Vehicle2_new(Here, seats))

\* v.add(name), v of the first generation
Add(self, name) ==
    /\ objs[self].ver = 1
    /\ LET o == objs[self]
           before == lists[o.passengers]
           r == add(o.seats, before, name)
       IN /\ lists' = [lists EXCEPT ![o.passengers] = r.passengers]
          /\ ret' = Call("add", self, name, before, r.raised, NoValue, <<>>)
    /\ UNCHANGED <<objs, caller, convoy, fleet>>

\* v.remove(name), v of the first generation
Remove(self, name) ==
    /\ objs[self].ver = 1
    /\ LET o == objs[self]
           before == lists[o.passengers]
           r == remove(before, name)
       IN /\ lists' = [lists EXCEPT ![o.passengers] = r.passengers]
          /\ ret' = Call("remove", self, name, before, NoError, r.value, <<>>)
    /\ UNCHANGED <<objs, caller, convoy, fleet>>

\* b.board_group(names), b a Bus of the first generation
BoardGroup(self, names) ==
    /\ objs[self].ver = 1
    /\ objs[self].cls = "Bus"
    /\ LET o == objs[self]
           before == lists[o.passengers]
           r == board_group(o.seats, before, names)
       IN /\ lists' = [lists EXCEPT ![o.passengers] = r.passengers]
          /\ ret' = Call("board_group", self, names, before, r.raised, NoValue, <<>>)
    /\ UNCHANGED <<objs, caller, convoy, fleet>>

\* v.add_passenger(name), v of the second generation
AddPassenger(self, name) ==
    /\ objs[self].ver = 2
    /\ LET o == objs[self]
           before == lists[o.passengers]
           r == add_passenger(o.seats, before, name)
       IN /\ lists' = [lists EXCEPT ![o.passengers] = r.passengers]
          /\ ret' = Call("add_passenger", self, name, before, NoError, NoValue, r.out)
    /\ UNCHANGED <<objs, caller, convoy, fleet>>

\* convoy.add_vehicle(v)
ConvoyAddVehicle(v) ==
    /\ convoy # NoObject
    /\ Len(convoy.vehicles) < MaxMembers
    /\ convoy' = [convoy EXCEPT !.vehicles = add_vehicle(@, v)]
    /\ ret' = Call("Convoy.add_vehicle", 0, v, <<>>, NoError, NoValue, <<>>)
    /\ UNCHANGED <<objs, lists, caller, fleet>>

\* fleet.add_vehicle(v)
FleetAddVehicle(v) ==
    /\ fleet # NoObject
    /\ Len(fleet.vehicles) < MaxMembers
    /\ fleet' = [fleet EXCEPT !.vehicles = add_vehicle(@, v)]
    /\ ret' = Call("Fleet.add_vehicle", 0, v, <<>>, NoError, NoValue, <<>>)
    /\ UNCHANGED <<objs, lists, caller, convoy>>

\* convoy.total_seats()
TotalSeats ==
    /\ convoy # NoObject
    /\ ret' = Call("total_seats", 0, NoValue, <<>>, NoError,
                   total_seats(convoy.vehicles, objs), <<>>)
    /\ UNCHANGED <<objs, lists, caller, convoy, fleet>>

\* convoy.total_passengers()
TotalPassengers ==
    /\ convoy # NoObject
    /\ ret' = Call("total_passengers", 0, NoValue, <<>>, NoError,
                   total_passengers(convoy.vehicles, objs, lists), <<>>)
    /\ UNCHANGED <<objs, lists, caller, convoy, fleet>>

\* convoy.print_summary()
PrintSummary ==
    /\ convoy # NoObject
    /\ ret' = Call("print_summary", 0, NoValue, <<>>, NoError, NoValue,
                   print_summary(convoy, objs, lists))
    /\ UNCHANGED <<objs, lists, caller, convoy, fleet>>

\* fleet.show_all()
ShowAll ==
    /\ fleet # NoObject
    /\ ret' = Call("show_all", 0, NoValue, <<>>, NoError, NoValue,
                   show_all(fleet, objs, lists))
    /\ UNCHANGED <<objs, lists, caller, convoy, fleet>>

\* The calling code appends to a list it holds
CallerAppend(l, name) ==
    /\ l \in caller
    /\ Len(lists[l]) < MaxCallerLen
    /\ lists' = [lists EXCEPT ![l] = Append(@, name)]
    /\ ret' = Call("list.append", 0, [list |-> l, name |-> name], lists[l], NoError,
                   NoValue, <<>>)
    /\ UNCHANGED <<objs, caller, convoy, fleet>>

\* The calling code empties a list it holds
CallerClear(l) ==
    /\ l \in caller
    /\ lists[l] # <<>>
    /\ lists' = [lists EXCEPT ![l] = <<>>]
    /\ ret' = Call("list.clear", 0, [list |-> l], lists[l], NoError, NoValue, <<>>)
    /\ UNCHANGED <<objs, caller, convoy, fleet>>

---------------------------------------------------------------------------------------------------------------------------------------------------
(* Spec: the life of one container.  Init is the state after the           *)
(* constructor call, made with any arguments (the call may have raised);   *)
(* the steps are the calls of its methods in any order.                    *)

\* names of an initial occupant sequence: "a", "A", " a"
InitNames == { <<"a">>, <<"A">>, <<" ", "a">> }

InitArgs == { None } \cup { TupleOf(s) : s \in SeqsUpTo(InitNames, MaxInit) }

\* names of a group: "A", " a"
GroupNames == { <<"A">>, <<" ", "a">> }

BrandInputs == { <<" ", "T">> }
ModelInputs == { <<"Y", " ">> }
RouteInputs == { <<" ", "7">> }

\* Every constructor call on the empty heap
Constructions ==
    { Vehicle_new(NoHeap, s, p) : s \in SeatInputs, p \in InitArgs }
    \cup { Car_new(NoHeap, s, b, m, p) :
             s \in SeatInputs, b \in BrandInputs, m \in ModelInputs, p \in InitArgs }
    \cup { Bus_new(NoHeap, s, r, p) : s \in SeatInputs, r \in RouteInputs, p \in InitArgs }
    \cup { Vehicle2_new(NoHeap, s) : s \in SeatInputs }
    \cup { Car2_new(NoHeap, s, b) : s \in SeatInputs, b \in BrandInputs }
    \cup { Bus2_new(NoHeap, s, r) : s \in SeatInputs, r \in RouteInputs }

Alone ==
    /\ caller = {}
    /\ convoy = NoObject
    /\ fleet = NoObject
    /\ script = <<>>
    /\ pc = 0

Init ==
    /\ \E n \in Constructions : objs = n.objs /\ lists = n.lists /\ ret = n.ret
    /\ Alone

Idle == UNCHANGED <<script, pc>>

Next ==
    \/ \E v \in DOMAIN objs, n \in NameInputs : Add(v, n) /\ Idle
    \/ \E v \in DOMAIN objs, n \in NameInputs : Remove(v, n) /\ Idle
    \/ \E v \in DOMAIN objs, g \in SeqsUpTo(GroupNames, MaxGroup) : BoardGroup(v, g) /\ Idle
    \/ \E v \in DOMAIN objs, n \in NameInputs : AddPassenger(v, n) /\ Idle

Spec == Init /\ [][Next]_vars

----------------------------------------------------------------------------
(* Properties of one container (checked under Spec)                        *)

\* The occupants of container v now
Occupants(v) == lists[objs[v].passengers]

\* A name add() accepts: something is left of it after trimming
Valid(name) == strip(name) # <<>>

Trimmed(name) == strip(name) = name

IsConstructor(op) == op \in { "Vehicle", "Car", "Bus" }

Min(S) == CHOOSE i \in S : \A j \in S : i <= j

\* C1 - capacity invariant: every container that exists (constructed with
\* an accepted capacity and any initial occupants, then used through add,
\* add_passenger, remove, board_group) holds at most seats occupants.
C1_CapacityInvariant ==
    \A v \in DOMAIN objs : Len(Occupants(v)) <= objs[v].seats

\* C3 - a constructor call with capacity 0 or a negative capacity raises
\* the invalid-capacity error, and no container has a capacity <= 0.
C3_NonPositiveCapacityRejected ==
    /\ (IsConstructor(ret.op) /\ ret.arg.seats <= 0) => ret.raised = "ValueError"
    /\ \A v \in DOMAIN objs : objs[v].seats > 0

\* C4 - after an add call (add or add_passenger) on a container that was
\* not full: a name that is empty or whitespace only raised the
\* invalid-name error and left the occupants as they were; any other name
\* was stored trimmed as the last occupant.
C4_NameValidationOnAdd ==
    (ret.op \in { "add", "add_passenger" } /\ Len(ret.before) < objs[ret.self].seats) =>
        /\ ~Valid(ret.arg) => (ret.raised = "ValueError" /\ Occupants(ret.self) = ret.before)
        /\ Valid(ret.arg) => Occupants(ret.self) = Append(ret.before, strip(ret.arg))

\* C5 - after remove(name): if some occupant equalled name exactly, the
\* call returned True and the occupants are the previous ones without the
\* first such occupant, the others in their order; if none did, it returned
\* False, raised nothing and left the occupants as they were.
C5_RemoveFirstMatch ==
    ret.op = "remove" =>
        LET b == ret.before
            hits == { i \in 1 .. Len(b) : b[i] = ret.arg }
        IN /\ ret.raised = NoError
           /\ hits = {} => (ret.value = FALSE /\ Occupants(ret.self) = b)
           /\ hits # {} =>
                /\ ret.value = TRUE
                /\ Occupants(ret.self) =
                       SubSeq(b, 1, Min(hits) - 1) \o SubSeq(b, Min(hits) + 1, Len(b))

\* C5 witness: a remove that found its name twice, with another occupant
\* between the two (deleting the first differs from deleting the last)
C5_Witness ==
    /\ ret.op = "remove"
    /\ ret.value = TRUE
    /\ \E i, j, k \in 1 .. Len(ret.before) :
          /\ i < j /\ j < k
          /\ ret.before[i] = ret.arg /\ ret.before[k] = ret.arg
          /\ ret.before[j] # ret.arg

\* C6 - after board_group(names) on a Bus that had r >= 0 seats left, with
\* names all valid and more than r of them: the call raised the
\* container-full error, the occupants are the previous ones followed by the
\* first r names (as add stores them), nothing was rolled back, no later
\* name was added and the bus is exactly full.
C6_BoardGroupPartial ==
    (/\ ret.op = "board_group"
     /\ available_seats(objs[ret.self].seats, ret.before) >= 0
     /\ Len(ret.arg) > available_seats(objs[ret.self].seats, ret.before)
     /\ \A i \in 1 .. Len(ret.arg) : Valid(ret.arg[i])) =>
        LET r == available_seats(objs[ret.self].seats, ret.before)
        IN /\ ret.raised = "RuntimeError"
           /\ Len(Occupants(ret.self)) = Len(ret.before) + r
           /\ \A i \in 1 .. Len(ret.before) : Occupants(ret.self)[i] = ret.before[i]
           /\ \A i \in 1 .. r : Occupants(ret.self)[Len(ret.before) + i] = strip(ret.arg[i])
           /\ Len(Occupants(ret.self)) = objs[ret.self].seats

\* C6 witness: a group of three valid names boarded a bus with two seats
\* left, and the call raised
C6_Witness ==
    /\ ret.op = "board_group"
    /\ available_seats(objs[ret.self].seats, ret.before) = 2
    /\ Len(ret.arg) = 3
    /\ \A i \in 1 .. Len(ret.arg) : Valid(ret.arg[i])
    /\ ret.raised = "RuntimeError"
    /\ Len(Occupants(ret.self)) = Len(ret.before) + 2

\* C9 - remove(name) returned True for an already trimmed name and the next
\* call is add(name) on the same container: afterwards the container holds
\* as many occupants as before the remove, namely the occupants before the
\* remove without the first occurrence of name, followed by name.
C9_RemoveThenAdd ==
    [][ (/\ ret.op = "remove" /\ ret.value = TRUE /\ Trimmed(ret.arg)
         /\ ret'.op = "add" /\ ret'.self = ret.self /\ ret'.arg = ret.arg) =>
            LET b == ret.before
                first == Min({ i \in 1 .. Len(b) : b[i] = ret.arg })
            IN /\ Len(lists'[objs[ret.self].passengers]) = Len(b)
               /\ lists'[objs[ret.self].passengers] =
                      (SubSeq(b, 1, first - 1) \o SubSeq(b, first + 1, Len(b)))
                      \o << ret.arg >> ]_<<ret.op, ret.self, lists>>

----------------------------------------------------------------------------
(* SpecFill: a driver constructs an empty container of a positive capacity *)
(* c and passes c + 1 names to its add operation, one call each, as        *)
(* tests/test_vehicle.py (lines 30-36) and demo_basics do.  An exception   *)
(* ends the driver.                                                        *)

\* names of a script: " ", "a", "A", " a"
FillNames == { <<" ">>, <<"a">>, <<"A">>, <<" ", "a">> }

EmptyContainers(c) ==
    { Vehicle_new(NoHeap, c, None), Vehicle2_new(NoHeap, c) }
    \cup { Car_new(NoHeap, c, b, m, None) : b \in BrandInputs, m \in ModelInputs }
    \cup { Bus_new(NoHeap, c, r, None) : r \in RouteInputs }
    \cup { Car2_new(NoHeap, c, b) : b \in BrandInputs }
    \cup { Bus2_new(NoHeap, c, r) : r \in RouteInputs }

InitFill ==
    /\ \E c \in 1 .. MaxSeats :
          /\ \E n \in EmptyContainers(c) : objs = n.objs /\ lists = n.lists /\ ret = n.ret
          /\ script \in { s \in SeqsUpTo(FillNames, c + 1) : Len(s) = c + 1 }
    /\ caller = {}
    /\ convoy = NoObject
    /\ fleet = NoObject
    /\ pc = 0

\* The driver's next call: add (first generation) or add_passenger (second)
FillStep ==
    /\ pc < Len(script)
    /\ ret.raised = NoError
    /\ \/ Add(1, script[pc + 1])
       \/ AddPassenger(1, script[pc + 1])
    /\ pc' = pc + 1
    /\ UNCHANGED script

NextFill == FillStep

SpecFill == InitFill /\ [][NextFill]_vars

\* What the add operation of container v stores for name
Stored(v, name) == IF objs[v].ver = 1 THEN strip(name) ELSE name

\* The last add call was rejected as "container full": add raised
\* RuntimeError, add_passenger printed the message and returned
RejectedFull ==
    \/ ret.op = "add" /\ ret.raised = "RuntimeError"
    \/ /\ ret.op = "add_passenger"
       /\ ret.raised = NoError
       /\ ret.out = << Line("Vehicle is full!", NoValue) >>

\* C2 - fill to capacity: with c + 1 valid names passed in order to a new
\* empty container of capacity c >= 1, each of the first c calls succeeds
\* and appends its name (as the add operation stores it), and call c + 1 is
\* rejected as "container full" and leaves exactly the first c names, in order.
C2_FillToCapacity ==
    (pc > 0 /\ \A i \in 1 .. Len(script) : Valid(script[i])) =>
        LET c == objs[1].seats
        IN /\ pc <= c =>
                /\ ret.raised = NoError
                /\ ret.out = <<>>
                /\ Occupants(1) = [i \in 1 .. pc |-> Stored(1, script[i])]
           /\ pc = c + 1 =>
                /\ RejectedFull
                /\ Occupants(1) = [i \in 1 .. c |-> Stored(1, script[i])]

\* C2 witness: call c + 1 was made on a container of capacity c >= 2, all
\* names valid and not all of them trimmed
C2_Witness ==
    /\ objs[1].seats >= 2
    /\ pc = objs[1].seats + 1
    /\ \A i \in 1 .. Len(script) : Valid(script[i])
    /\ \E i \in 1 .. Len(script) : ~Trimmed(script[i])
    /\ RejectedFull

----------------------------------------------------------------------------
(* SpecAgg: an aggregate and three containers, as demo_fleet (main.py      *)
(* lines 58-64) and test_polymorphism_fleet_show_all build them: a         *)
(* Vehicle, a Car and a Bus of one generation, and a Convoy or a Fleet.    *)
(* The steps add the containers to the aggregate in any order, any number  *)
(* of times, change the containers directly, and query the aggregate.      *)

\* the capacities of the three containers
AggSeats == { <<2, 4, 5>>, <<1, 1, 1>> }

AggNames == { <<"a">> }

ConvoyNames == { <<" ", "C">> }

\* v1 = Vehicle(..); c1 = Car(..); b1 = Bus(..)
ThreeContainers(ver, seats) ==
    IF ver = 1
    THEN LET a == Vehicle_new(NoHeap, seats[1], None)
             b == Car_new(a, seats[2], <<" ", "T">>, <<"Y", " ">>, None)
         IN Bus_new(b, seats[3], <<" ", "7">>, None)
    ELSE LET a == Vehicle2_new(NoHeap, seats[1])
             b == Car2_new(a, seats[2], <<" ", "T">>)
         IN Bus2_new(b, seats[3], <<" ", "7">>)

InitAgg ==
    /\ \E ver \in { 1, 2 }, seats \in AggSeats :
          LET n == ThreeContainers(ver, seats)
          IN objs = n.objs /\ lists = n.lists /\ ret = n.ret
    /\ \/ (\E name \in ConvoyNames : convoy = Convoy_init(name)) /\ fleet = NoObject
       \/ convoy = NoObject /\ fleet = Fleet_init
    /\ caller = {}
    /\ script = <<>>
    /\ pc = 0

NextAgg ==
    \/ \E v \in DOMAIN objs, n \in AggNames : Add(v, n) /\ Idle
    \/ \E v \in DOMAIN objs, n \in AggNames : Remove(v, n) /\ Idle
    \/ \E v \in DOMAIN objs, n \in AggNames : AddPassenger(v, n) /\ Idle
    \/ \E v \in DOMAIN objs : ConvoyAddVehicle(v) /\ Idle
    \/ \E v \in DOMAIN objs : FleetAddVehicle(v) /\ Idle
    \/ TotalSeats /\ Idle
    \/ TotalPassengers /\ Idle
    \/ PrintSummary /\ Idle
    \/ ShowAll /\ Idle

SpecAgg == InitAgg /\ [][NextAgg]_vars

\* How many times container v is a member of the sequence vehicles
Times(vehicles, v) == Cardinality({ i \in 1 .. Len(vehicles) : vehicles[i] = v })

\* The sum of the capacities of the containers, each counted as often as
\* it is a member
MemberSeats(vehicles) ==
    LET S[n \in 0 .. Len(objs)] ==
            IF n = 0 THEN 0 ELSE S[n - 1] + Times(vehicles, n) * objs[n].seats
    IN S[Len(objs)]

\* The sum of the occupant counts of the containers, likewise
MemberOccupants(vehicles) ==
    LET S[n \in 0 .. Len(objs)] ==
            IF n = 0 THEN 0 ELSE S[n - 1] + Times(vehicles, n) * Len(Occupants(n))
    IN S[Len(objs)]

IsQuery(op) == op \in { "total_seats", "total_passengers" }

\* C7 - whatever add_vehicle calls were made on the convoy and add / remove
\* calls on its members: total_seats() returns the sum of the members'
\* capacities, total_passengers() the sum of the members' present occupant
\* counts, and neither call changes the aggregate or a container.
C7_TotalsTrackMembers ==
    /\ [](ret.op = "total_seats" => ret.value = MemberSeats(convoy.vehicles))
    /\ [](ret.op = "total_passengers" => ret.value = MemberOccupants(convoy.vehicles))
    /\ [][IsQuery(ret'.op) => UNCHANGED <<objs, lists, convoy, fleet>>]_<<ret.op, objs, lists, convoy, fleet>>

\* C7 witness: members of capacity 2, 4 and 5 (11 seats), one occupant added
\* to each after it became a member, and total_passengers() returned 3
C7_Witness ==
    /\ convoy # NoObject
    /\ convoy.vehicles = <<1, 2, 3>>
    /\ total_seats(convoy.vehicles, objs) = 11
    /\ \A v \in 1 .. 3 : Len(Occupants(v)) = 1
    /\ ret.op = "total_passengers"
    /\ ret.value = 3

\* The descriptions among the printed lines: show_all prints a description
\* alone, print_summary prints it after " -"
Descriptions(out) ==
    LET IsDescription(l) == l.literal \in { "", " -" }
        d == SelectSeq(out, IsDescription)
    IN [i \in 1 .. Len(d) |-> d[i].value]

Members == IF ret.op = "show_all" THEN fleet.vehicles ELSE convoy.vehicles

\* C8 - show_all and print_summary emit one description per member, in the
\* order the members were added; each begins with the name of the member's
\* own class and reports the member's capacity and occupant count; the
\* descriptions of two members of different classes differ.
C8_DescribeAll ==
    ret.op \in { "show_all", "print_summary" } =>
        LET d == Descriptions(ret.out)
        IN /\ Len(d) = Len(Members)
           /\ \A i \in 1 .. Len(Members) :
                 /\ d[i].label = objs[Members[i]].cls
                 /\ d[i].seats = objs[Members[i]].seats
                 /\ d[i].passengers = Len(Occupants(Members[i]))
           /\ \A i, j \in 1 .. Len(Members) :
                 objs[Members[i]].cls # objs[Members[j]].cls => d[i] # d[j]

\* C8 witness: show_all on a fleet of a Vehicle, a Car and a Bus of equal
\* capacity and equal occupant count printed three lines
C8_Witness ==
    /\ ret.op = "show_all"
    /\ Len(ret.out) = 3
    /\ { objs[fleet.vehicles[i]].cls : i \in 1 .. 3 } = { "Vehicle", "Car", "Bus" }
    /\ \A v \in 1 .. 3 : objs[v].seats = 1 /\ Len(Occupants(v)) = 1

----------------------------------------------------------------------------
(* SpecAlias: calling code that has built a list of names, constructs up   *)
(* to MaxObjs containers, with that list as the initial occupants or       *)
(* without any, goes on changing its list and calls the containers'        *)
(* methods.                                                                *)

MaxObjs == 2

\* the lists the calling code builds: [], ["b"], ["b", "a"]
AliasLists == { <<>>, << <<"b">> >>, << <<"b">>, <<"a">> >> }

AliasNames == { <<"a">> }

AliasSeats == { 1, 2 }

\* the passengers argument: omitted, or a list the calling code holds
AliasArgs == { None } \cup { ListRef(l) : l \in caller }

Room == Len(objs) < MaxObjs

\* names = [...]: the calling code has built its list
InitAlias ==
    /\ objs = <<>>
    /\ lists \in { << names >> : names \in AliasLists }
    /\ caller = { 1 }
    /\ ret = NoCall
    /\ convoy = NoObject
    /\ fleet = NoObject
    /\ script = <<>>
    /\ pc = 0

NextAlias ==
    \/ \E l \in caller, n \in AliasNames : CallerAppend(l, n) /\ Idle
    \/ \E l \in caller : CallerClear(l) /\ Idle
    \/ \E s \in AliasSeats, p \in AliasArgs : Room /\ NewVehicle(s, p) /\ Idle
    \/ \E s \in AliasSeats : Room /\ NewVehicle2(s) /\ Idle
    \/ \E v \in DOMAIN objs, n \in AliasNames : Add(v, n) /\ Idle
    \/ \E v \in DOMAIN objs, n \in AliasNames : Remove(v, n) /\ Idle
    \/ \E v \in DOMAIN objs, n \in AliasNames : AddPassenger(v, n) /\ Idle

SpecAlias == InitAlias /\ [][NextAlias]_vars

IsMethod(op) == op \in { "add", "remove", "add_passenger" }

IsCallerChange(op) == op \in { "list.append", "list.clear" }

\* C10 - a container constructed with a list of the calling code holds the
\* list's elements in a list object of its own; no container's list object
\* is held by the calling code or by another container; so a method call on
\* a container changes no other container's occupants and no list of the
\* calling code, and a change of a list by the calling code changes no
\* container's occupants.
C10_NoAliasing ==
    /\ []((IsConstructor(ret.op) /\ ret.self # 0 /\ ret.arg.passengers.kind = "list") =>
            /\ Occupants(ret.self) = lists[ret.arg.passengers.ref]
            /\ objs[ret.self].passengers # ret.arg.passengers.ref)
    /\ [](\A v \in DOMAIN objs :
            /\ objs[v].passengers \notin caller
            /\ \A w \in DOMAIN objs : w # v => objs[w].passengers # objs[v].passengers)
    /\ [][ /\ IsMethod(ret'.op) =>
                /\ \A w \in DOMAIN objs :
                      w # ret'.self => lists'[objs[w].passengers] = Occupants(w)
                /\ \A l \in caller : lists'[l] = lists[l]
           /\ IsCallerChange(ret'.op) =>
                \A w \in DOMAIN objs : lists'[objs[w].passengers] = Occupants(w)
       ]_<<ret.op, ret.self, lists>>

\* C10 witness: two containers exist, the second constructed with the
\* calling code's list; the calling code has since changed its list and the
\* first container has since been changed, and the three sequences differ
C10_Witness ==
    /\ Len(objs) = 2
    /\ ret.op = "add"
    /\ ret.self = 1
    /\ ret.raised = NoError
    /\ \E l \in caller :
          /\ lists[l] # <<>>
          /\ Occupants(2) # <<>>
          /\ lists[l] # Occupants(2)
          /\ Occupants(1) # Occupants(2)
          /\ Occupants(1) # lists[l]

====
